---------------------------- MODULE Spec2Model ----------------------------
(***************************************************************************)
(* Model of wandbox-rs: the compiler cache built by Wandbox::new (grouping *)
(* in cache::load, language and compiler exclusion, re-lowercasing), its   *)
(* read-only queries, and the CompilationBuilder (mutators, build,         *)
(* dispatch).                                                              *)
(*                                                                         *)
(* A string is the sequence of its character codes, so that                *)
(* to_ascii_lowercase, trim and join are computed character by character.  *)
(* A Compiler record carries the two fields the code reads or writes       *)
(* (name, language); version, display_compile_command and the two _raw     *)
(* flags are only ever cloned.                                             *)
(***************************************************************************)
EXTENDS Integers, Sequences, FiniteSets

VARIABLES
    listing,               \* what https://wandbox.org/api/list.json serves
    wb,                    \* "none": no Wandbox yet, "ok": new returned Ok, "err": new returned Err
    comps,                 \* the comps argument Wandbox::new was called with
    langs,                 \* the langs argument Wandbox::new was called with
    cache,                 \* Wandbox.cache: HashMap<String, Language>
    order,                 \* the iteration order of that HashMap
    target,                \* CompilationBuilder.target
    lang,                  \* CompilationBuilder.lang
    compiler,              \* CompilationBuilder.compiler
    code,                  \* CompilationBuilder.code
    stdin,                 \* CompilationBuilder.stdin
    options,               \* CompilationBuilder.options
    compiler_options_raw,  \* CompilationBuilder.compiler_options_raw
    save,                  \* CompilationBuilder.save
    result,                \* what the most recent call on the builder returned
    sent,                  \* the request that call posted: None unless it was dispatch
    rw,                    \* the RwLock around Wandbox.cache: guards handed out
    threads                \* the threads calling into the Wandbox

wandbox == <<wb, comps, langs, cache, order>>
builder == <<target, lang, compiler, code, stdin, options, compiler_options_raw, save>>
locking == <<rw, threads>>
vars == <<listing, wandbox, builder, result, sent, locking>>

----------------------------------------------------------------------------
(* Bounds *)

\* longest listing the remote serves when only the cache is built
MaxListing == 3
\* longest listing the remote serves when a builder is run against the cache
MaxBuilderListing == 2

----------------------------------------------------------------------------
(* Strings *)

Str_empty == <<>>
Str_c == <<99>>
Str_C == <<67>>
Str_g == <<103>>
Str_go == <<103, 111>>
Str_Go == <<71, 111>>
Str_zz == <<122, 122>>
Str_x == <<120>>
Str_a == <<45, 97>>
Str_b == <<45, 98>>

None == [tag |-> "None"]
Some(v) == [tag |-> "Some", val |-> v]
Panic == [tag |-> "Panic"]

Range(s) == {s[i] : i \in 1..Len(s)}

\* u8::to_ascii_lowercase: 'A'..'Z' map to 'a'..'z', every other byte to itself
LowerChar(ch) == IF ch >= 65 /\ ch <= 90 THEN ch + 32 ELSE ch

RECURSIVE ToAsciiLowercase(_)
ToAsciiLowercase(s) ==
    IF s = <<>> THEN <<>>
    ELSE <<LowerChar(Head(s))>> \o ToAsciiLowercase(Tail(s))

\* char::is_whitespace on the ASCII range
IsWhitespace(ch) == ch \in {9, 10, 11, 12, 13, 32}

RECURSIVE TrimStart(_)
TrimStart(s) ==
    IF s # <<>> /\ IsWhitespace(Head(s)) THEN TrimStart(Tail(s)) ELSE s

RECURSIVE TrimEnd(_)
TrimEnd(s) ==
    IF s # <<>> /\ IsWhitespace(s[Len(s)]) THEN TrimEnd(SubSeq(s, 1, Len(s) - 1)) ELSE s

\* str::trim
Trim(s) == TrimEnd(TrimStart(s))

\* Join putting the items in reverse order
RECURSIVE JoinReversed(_, _)
JoinReversed(v, sep) ==
    IF v = <<>> THEN <<>>
    ELSE IF Len(v) = 1 THEN v[1]
    ELSE JoinReversed(Tail(v), sep) \o sep \o v[1]

\* [String]::join(sep)
RECURSIVE Join(_, _)
Join(v, sep) ==
    IF v = <<>> THEN <<>>
    ELSE IF Len(v) = 1 THEN v[1]
    ELSE v[1] \o sep \o Join(Tail(v), sep)

----------------------------------------------------------------------------
(* cache::load *)

EmptyCache == [k \in {} |-> [name |-> <<>>, compilers |-> <<>>]]

\* HashMap::insert
Insert(m, k, v) == [x \in DOMAIN m \cup {k} |-> IF x = k THEN v ELSE m[x]]

\* LoadStep with the record put at the front of an existing group
LoadStepPrepend(comp_cache, c) ==
    LET language_name == ToAsciiLowercase(c.language) IN
    IF language_name \in DOMAIN comp_cache
    THEN [comp_cache EXCEPT ![language_name].compilers = <<c>> \o @]
    ELSE [x \in DOMAIN comp_cache \cup {language_name} |->
              IF x = language_name
              THEN [name |-> language_name, compilers |-> <<c>>]
              ELSE comp_cache[x]]

\* LoadStep inserting a new group under a fresh String instead of its name
LoadStepUnnamed(comp_cache, c) ==
    LET language_name == ToAsciiLowercase(c.language) IN
    IF language_name \in DOMAIN comp_cache
    THEN [comp_cache EXCEPT ![language_name].compilers = Append(@, c)]
    ELSE Insert(comp_cache, <<>>,
                [name |-> language_name, compilers |-> <<c>>])

\* one turn of the loop over the decoded listing
LoadStep(comp_cache, c) ==
    LET language_name == ToAsciiLowercase(c.language) IN
    IF language_name \in DOMAIN comp_cache
    THEN [comp_cache EXCEPT ![language_name].compilers = Append(@, c)]
    ELSE Insert(comp_cache, language_name,
                [name |-> language_name, compilers |-> <<c>>])

RECURSIVE LoadLoop(_, _)
LoadLoop(res, n) ==
    IF n = 0 THEN EmptyCache ELSE LoadStep(LoadLoop(res, n - 1), res[n])

\* Load reading the listing from its last entry to its first
LoadBackwards(res) ==
    LoadLoop([i \in 1..Len(res) |-> res[Len(res) + 1 - i]], Len(res))

\* the cache load() returns for a fetched and decoded listing
Load(res) == LoadLoop(res, Len(res))

----------------------------------------------------------------------------
(* Wandbox::new *)

\* RemoveCompiler removing only the first compiler of that name
RemoveCompilerFirst(l, str) ==
    LET cs == l.compilers
        hits == {i \in 1..Len(cs) : cs[i].name = str}
    IN IF hits = {} THEN l
       ELSE LET first == CHOOSE i \in hits : \A j \in hits : i <= j
            IN [l EXCEPT !.compilers =
                    SubSeq(cs, 1, first - 1) \o SubSeq(cs, first + 1, Len(cs))]

\* Language::remove_compiler
RemoveCompiler(l, str) ==
    [l EXCEPT !.compilers = SelectSeq(@, LAMBDA v : v.name # str)]

\* for str in &comps { v.remove_compiler(str) }
RECURSIVE RemoveCompilers(_, _)
RemoveCompilers(l, strs) ==
    IF strs = {} THEN l
    ELSE LET str == CHOOSE s \in strs : TRUE
         IN RemoveCompilers(RemoveCompiler(l, str), strs \ {str})

\* FilterLanguages testing the language as the listing declares it
FilterLanguagesAsDeclared(m, ls) ==
    [k \in {x \in DOMAIN m : m[x].compilers[1].language \notin ls} |-> m[k]]

\* cache.into_iter().filter(|(_x, v)| !langs.contains(&v.name)).collect()
FilterLanguages(m, ls) ==
    [k \in {x \in DOMAIN m : m[x].name \notin ls} |-> m[k]]

\* FilterCompilers dropping a group it has emptied
FilterCompilersDropEmpty(m, cs) ==
    [k \in {x \in DOMAIN m : RemoveCompilers(m[x], cs).compilers # <<>>} |->
         RemoveCompilers(m[k], cs)]

\* the loop over cache.iter_mut() removing the ignored compilers
FilterCompilers(m, cs) == [k \in DOMAIN m |-> RemoveCompilers(m[k], cs)]

RECURSIVE LowerLanguages(_)
LowerLanguages(cs) ==
    IF cs = <<>> THEN <<>>
    ELSE <<[Head(cs) EXCEPT !.language = ToAsciiLowercase(@)]>>
         \o LowerLanguages(Tail(cs))

\* AdjustLanguages left out
AdjustLanguagesSkipped(m) == m

\* "adjust language names to lower"
AdjustLanguages(m) ==
    [k \in DOMAIN m |-> [m[k] EXCEPT !.compilers = LowerLanguages(@)]]

\* BuildCache returning the cache before the languages are adjusted
BuildCacheUnadjusted(loaded, cs, ls) ==
    LET c1 == IF ls.tag = "Some" THEN FilterLanguages(loaded, ls.val) ELSE loaded
    IN IF cs.tag = "Some" THEN FilterCompilers(c1, cs.val) ELSE c1

\* the cache Wandbox::new stores once load() has returned Ok(loaded)
BuildCache(loaded, cs, ls) ==
    LET c1 == IF ls.tag = "Some" THEN FilterLanguages(loaded, ls.val) ELSE loaded
        c2 == IF cs.tag = "Some" THEN FilterCompilers(c1, cs.val) ELSE c1
    IN AdjustLanguages(c2)

\* every order a HashMap with these keys may iterate in
Orders(keys) ==
    {o \in [1..Cardinality(keys) -> keys] : Range(o) = keys}

----------------------------------------------------------------------------
(* Queries of Wandbox *)

\* the (key, compiler) positions in iteration order that hold compiler c
Holds(k, c) == \E i \in 1..Len(cache[k].compilers) : cache[k].compilers[i].name = c

GetCompilers(l) ==
    IF l \in DOMAIN cache THEN Some(cache[l].compilers) ELSE None

GetLanguages == [i \in 1..Len(order) |-> cache[order[i]]]

IsValidCompilerStr(c) == \E i \in 1..Len(order) : Holds(order[i], c)

\* GetCompilerLanguageStr answering with the first group iterated, whichever
\* group holds the compiler
GetCompilerLanguageStrFirstGroup(c) ==
    IF \E i \in 1..Len(order) : Holds(order[i], c)
    THEN Some(cache[order[1]].name)
    ELSE None

GetCompilerLanguageStr(c) ==
    IF \E i \in 1..Len(order) : Holds(order[i], c)
    THEN LET first == CHOOSE i \in 1..Len(order) :
                          /\ Holds(order[i], c)
                          /\ \A j \in 1..(i - 1) : ~Holds(order[j], c)
         IN Some(cache[order[first]].name)
    ELSE None

IsValidLanguage(l) == l \in DOMAIN cache

\* GetDefaultCompiler answering None for an empty group
GetDefaultCompilerOrNone(l) ==
    IF l \in DOMAIN cache /\ Len(cache[l].compilers) >= 1
    THEN Some(cache[l].compilers[1].name)
    ELSE None

\* lang.compilers.get(0).expect("awd") panics on an empty group
GetDefaultCompiler(l) ==
    IF l \in DOMAIN cache
    THEN IF Len(cache[l].compilers) >= 1
         THEN Some(cache[l].compilers[1].name)
         ELSE Panic
    ELSE None

----------------------------------------------------------------------------
(* Inputs *)

Names == {Str_c, Str_g}
Languages == {Str_C, Str_c, Str_Go, Str_empty}
Entries == {[name |-> n, language |-> l] : n \in Names, l \in Languages}

\* the listings a builder is run against declare these languages
BuilderLanguages == {Str_C, Str_Go}
BuilderEntries == {[name |-> n, language |-> l] : n \in Names, l \in BuilderLanguages}

SeqsUpTo(S, n) == UNION {[1..k -> S] : k \in 0..n}

OptionalSets(S) == {None} \cup {Some(s) : s \in SUBSET S}

IgnoredCompilers == OptionalSets(Names)
IgnoredLanguages == OptionalSets({Str_c, Str_C})

----------------------------------------------------------------------------
(* Actions *)

\* the threads that share one Wandbox
Threads == {"t1", "t2"}

\* no guard of the RwLock is out, and no thread has called anything
InitThreads ==
    /\ rw = [readers |-> 0, writer |-> FALSE]
    /\ threads = [t \in Threads |->
                     [pc |-> "idle", outer |-> FALSE, op |-> "none",
                      query |-> "none", arg |-> <<>>, ret |-> None]]

InitWandbox ==
    /\ wb = "none"
    /\ comps = None
    /\ langs = None
    /\ cache = EmptyCache
    /\ order = <<>>

\* CompilationBuilder::new(): Default::default()
InitBuilder ==
    /\ target = <<>>
    /\ lang = <<>>
    /\ compiler = <<>>
    /\ code = <<>>
    /\ stdin = <<>>
    /\ options = <<>>
    /\ compiler_options_raw = <<>>
    /\ save = FALSE
    /\ result = "none"
    /\ sent = None

InitCatalog ==
    /\ listing \in SeqsUpTo(Entries, MaxListing)
    /\ InitWandbox
    /\ InitBuilder
    /\ InitThreads

\* Wandbox::new(cs, ls), the fetch and the decoding having succeeded
NewOk(cs, ls) ==
    /\ wb = "none"
    /\ wb' = "ok"
    /\ comps' = cs
    /\ langs' = ls
    /\ cache' = BuildCache(Load(listing), cs, ls)
    /\ order' \in Orders(DOMAIN cache')
    /\ UNCHANGED <<listing, locking, builder, result, sent>>

\* Wandbox::new, load() having returned Err: `?` returns it and no Wandbox
\* is made
NewErr ==
    /\ wb = "none"
    /\ wb' = "err"
    /\ UNCHANGED <<comps, langs, cache, order, listing, locking, builder, result,
                   sent>>

New ==
    \/ \E cs \in IgnoredCompilers, ls \in IgnoredLanguages : NewOk(cs, ls)
    \/ NewErr

NextCatalog == New

SpecCatalog == InitCatalog /\ [][NextCatalog]_vars

----------------------------------------------------------------------------
(* CompilationBuilder *)

Newline == <<10>>

TargetInputs == {<<32>> \o Str_c, Str_g \o <<32>>, Str_zz}
CodeInputs == {<<32>> \o Str_x \o Newline}
StdinInputs == {<<9>> \o Str_x \o <<32>>}
OptionInputs == {<<>>, <<Str_a, Str_b>>}

ErrNoDefault == "Err: Unable to determine default compiler for input language"
ErrNoLanguage == "Err: Unable to determine language for compiler}"
ErrNotFound == "Err: Unable to find compiler or language for target"

\* a panic unwinds the calling thread: no later call is made on the builder
Running == result # "panic"

Target(t) ==
    /\ Running
    /\ target' = Trim(t)
    /\ result' = "()"
    /\ sent' = None
    /\ UNCHANGED <<listing, locking, wandbox, lang, compiler, code, stdin, options,
                   compiler_options_raw, save>>

Code(c) ==
    /\ Running
    /\ code' = Trim(c)
    /\ result' = "()"
    /\ sent' = None
    /\ UNCHANGED <<listing, locking, wandbox, target, lang, compiler, stdin, options,
                   compiler_options_raw, save>>

Stdin(s) ==
    /\ Running
    /\ stdin' = Trim(s)
    /\ result' = "()"
    /\ sent' = None
    /\ UNCHANGED <<listing, locking, wandbox, target, lang, compiler, code, options,
                   compiler_options_raw, save>>

Save(b) ==
    /\ Running
    /\ save' = b
    /\ result' = "()"
    /\ sent' = None
    /\ UNCHANGED <<listing, locking, wandbox, target, lang, compiler, code, stdin,
                   options,
                   compiler_options_raw>>

Options(v) ==
    /\ Running
    /\ options' = v
    /\ result' = "()"
    /\ sent' = None
    /\ UNCHANGED <<listing, locking, wandbox, target, lang, compiler, code, stdin,
                   compiler_options_raw, save>>

\* options.into_iter().map(|f| f.to_owned()).collect()
OptionsStr(v) ==
    /\ Running
    /\ options' = [i \in 1..Len(v) |-> v[i]]
    /\ result' = "()"
    /\ sent' = None
    /\ UNCHANGED <<listing, locking, wandbox, target, lang, compiler, code, stdin,
                   compiler_options_raw, save>>

\* Resolve clearing lang and compiler when the target is not found
ResolveClearing(t) ==
    IF IsValidLanguage(t)
    THEN LET def == GetDefaultCompiler(t) IN
         CASE def.tag = "Panic" ->
                  [lang |-> lang, compiler |-> compiler, result |-> "panic"]
           [] def.tag = "None" ->
                  [lang |-> lang, compiler |-> compiler, result |-> ErrNoDefault]
           [] OTHER ->
                  [lang |-> t, compiler |-> def.val, result |-> "Ok"]
    ELSE IF IsValidCompilerStr(t)
    THEN LET l == GetCompilerLanguageStr(t) IN
         IF l.tag = "None"
         THEN [lang |-> lang, compiler |-> compiler, result |-> ErrNoLanguage]
         ELSE [lang |-> l.val, compiler |-> t, result |-> "Ok"]
    ELSE [lang |-> <<>>, compiler |-> <<>>, result |-> ErrNotFound]

\* Resolve with the two assignments of the compiler branch exchanged
ResolveSwapped(t) ==
    IF IsValidLanguage(t)
    THEN LET def == GetDefaultCompiler(t) IN
         CASE def.tag = "Panic" ->
                  [lang |-> lang, compiler |-> compiler, result |-> "panic"]
           [] def.tag = "None" ->
                  [lang |-> lang, compiler |-> compiler, result |-> ErrNoDefault]
           [] OTHER ->
                  [lang |-> t, compiler |-> def.val, result |-> "Ok"]
    ELSE IF IsValidCompilerStr(t)
    THEN LET l == GetCompilerLanguageStr(t) IN
         IF l.tag = "None"
         THEN [lang |-> lang, compiler |-> compiler, result |-> ErrNoLanguage]
         ELSE [lang |-> t, compiler |-> l.val, result |-> "Ok"]
    ELSE [lang |-> lang, compiler |-> compiler, result |-> ErrNotFound]

\* the resolution in build: what lang and compiler become and what is returned
Resolve(t) ==
    IF IsValidLanguage(t)
    THEN LET def == GetDefaultCompiler(t) IN
         CASE def.tag = "Panic" ->
                  [lang |-> lang, compiler |-> compiler, result |-> "panic"]
           [] def.tag = "None" ->
                  [lang |-> lang, compiler |-> compiler, result |-> ErrNoDefault]
           [] OTHER ->
                  [lang |-> t, compiler |-> def.val, result |-> "Ok"]
    ELSE IF IsValidCompilerStr(t)
    THEN LET l == GetCompilerLanguageStr(t) IN
         IF l.tag = "None"
         THEN [lang |-> lang, compiler |-> compiler, result |-> ErrNoLanguage]
         ELSE [lang |-> l.val, compiler |-> t, result |-> "Ok"]
    ELSE [lang |-> lang, compiler |-> compiler, result |-> ErrNotFound]

\* CompilationBuilder::build(&wb)
Build ==
    /\ Running
    /\ wb = "ok"
    /\ compiler_options_raw' = Join(options, Newline)
    /\ LET r == Resolve(target) IN
           /\ lang' = r.lang
           /\ compiler' = r.compiler
           /\ result' = r.result
    /\ sent' = None
    /\ UNCHANGED <<listing, locking, wandbox, target, code, stdin, options, save>>

\* Payload serializing the target as the compiler
PayloadOfTarget ==
    [lang |-> lang, compiler |-> target, code |-> code, stdin |-> stdin,
     compiler_option_raw |-> compiler_options_raw, save |-> save]

\* what .json(&self) serializes: target and options are #[serde(skip)]
Payload ==
    [lang |-> lang, compiler |-> compiler, code |-> code, stdin |-> stdin,
     compiler_option_raw |-> compiler_options_raw, save |-> save]

\* Ok(res), or the Err of a failed send or of an undecodable reply
DispatchResults == {"Dispatch Ok", "Dispatch Err"}

\* CompilationBuilder::dispatch(): posts Payload, the builder is only read
Dispatch ==
    /\ Running
    /\ sent' = Some(Payload)
    /\ result' \in DispatchResults
    /\ UNCHANGED <<listing, locking, wandbox, builder>>

Init ==
    /\ listing \in SeqsUpTo(BuilderEntries, MaxBuilderListing)
    /\ InitWandbox
    /\ InitBuilder
    /\ InitThreads

Next ==
    \/ New
    \/ \E t \in TargetInputs : Target(t)
    \/ \E c \in CodeInputs : Code(c)
    \/ \E s \in StdinInputs : Stdin(s)
    \/ \E b \in BOOLEAN : Save(b)
    \/ \E v \in OptionInputs : Options(v)
    \/ \E v \in OptionInputs : OptionsStr(v)
    \/ Build
    \/ Dispatch

Spec == Init /\ [][Next]_vars

----------------------------------------------------------------------------
(* Properties of the cache Wandbox::new builds (checked under SpecCatalog) *)

CacheBuilt == wb = "ok"

\* the listing positions whose entry is grouped under key l
Declared(l) == {i \in 1..Len(listing) : ToAsciiLowercase(listing[i].language) = l}

Ignored(n) == comps.tag = "Some" /\ n \in comps.val

\* C1: for every key L of a built cache, get_default_compiler(L) returns
\* Some(name), and name is the name of a member of get_compilers(L).
C1_DefaultCompilerIsMember ==
    CacheBuilt =>
        \A l \in DOMAIN cache :
            /\ GetDefaultCompiler(l).tag = "Some"
            /\ GetCompilers(l).tag = "Some"
            /\ \E i \in 1..Len(GetCompilers(l).val) :
                   GetCompilers(l).val[i].name = GetDefaultCompiler(l).val

\* C2: a compiler named in the comps argument is in no group of the built
\* cache: is_valid_compiler_str is false and get_compiler_language_str is
\* None for it.
C2_IgnoredCompilersAbsent ==
    (CacheBuilt /\ comps.tag = "Some") =>
        \A c \in comps.val :
            /\ ~IsValidCompilerStr(c)
            /\ GetCompilerLanguageStr(c) = None
            /\ \A k \in DOMAIN cache : ~Holds(k, c)

\* C2's case: an ignored compiler that the listing names twice or more under
\* languages that stayed in the cache.
C2_Witness ==
    /\ CacheBuilt
    /\ \E c \in Names :
           /\ Ignored(c)
           /\ Cardinality({i \in 1..Len(listing) :
                  /\ listing[i].name = c
                  /\ ToAsciiLowercase(listing[i].language) \in DOMAIN cache}) >= 2
           /\ Cardinality({ToAsciiLowercase(listing[i].language) :
                  i \in {j \in 1..Len(listing) : listing[j].name = c}}) >= 2

\* C3: a language named in the langs argument is no key and no group name of
\* the built cache (is_valid_language false, get_compilers None), and a
\* compiler the listing declares only under it is not a valid compiler.
C3_IgnoredLanguagesAbsent ==
    (CacheBuilt /\ langs.tag = "Some") =>
        \A x \in langs.val :
            /\ ~IsValidLanguage(x)
            /\ GetCompilers(x) = None
            /\ \A k \in DOMAIN cache : cache[k].name # x
            /\ \A n \in Names :
                   (/\ \E i \in 1..Len(listing) : listing[i].name = n
                    /\ \A i \in 1..Len(listing) :
                           listing[i].name = n => i \in Declared(x))
                   => ~IsValidCompilerStr(n)

\* C3's case: the listing declares a language that langs names, with a
\* compiler of its own, next to a language that stays.
C3_Witness ==
    /\ CacheBuilt
    /\ langs.tag = "Some"
    /\ \E x \in langs.val :
           /\ Declared(x) # {}
           /\ \E n \in Names :
                  /\ \E i \in Declared(x) : listing[i].name = n
                  /\ \A i \in 1..Len(listing) :
                         listing[i].name = n => i \in Declared(x)
    /\ DOMAIN cache # {}

\* C6: every key of the built cache is the name of its group and the
\* lowercase form of a language the listing declares, and every record of the
\* group has that key as its language and comes from a listing entry declared
\* under it.
C6_CaseNormalized ==
    CacheBuilt =>
        \A k \in DOMAIN cache :
            /\ cache[k].name = k
            /\ Declared(k) # {}
            /\ \A j \in 1..Len(cache[k].compilers) :
                   /\ cache[k].compilers[j].language = k
                   /\ \E i \in Declared(k) :
                          listing[i].name = cache[k].compilers[j].name

\* C6's case: the listing declares "C", the cache has the key "c" and a record
\* of that group whose language is "c".
C6_Witness ==
    /\ CacheBuilt
    /\ \A i \in 1..Len(listing) : listing[i].language = Str_C
    /\ Str_c \in DOMAIN cache
    /\ Str_C \notin DOMAIN cache
    /\ Len(cache[Str_c].compilers) >= 1
    /\ cache[Str_c].compilers[1].language = Str_c

\* the listing entries grouped under l and not ignored, in listing order
Retained(l) ==
    SelectSeq(listing,
              LAMBDA e : ToAsciiLowercase(e.language) = l /\ ~Ignored(e.name))

\* C7: get_compilers(L) is the subsequence of the listing made of the entries
\* whose lowercased language is L and whose name is not ignored, in the
\* listing's order (each with its language lowercased).
C7_OrderPreserved ==
    CacheBuilt =>
        \A l \in DOMAIN cache :
            /\ GetCompilers(l).tag = "Some"
            /\ Len(GetCompilers(l).val) = Len(Retained(l))
            /\ \A i \in 1..Len(Retained(l)) :
                   GetCompilers(l).val[i] =
                       [name |-> Retained(l)[i].name, language |-> l]

\* C7's case: a group holds two compilers of different names, which the
\* listing declares with another language's entry between them.
C7_Witness ==
    /\ CacheBuilt
    /\ Len(listing) = 3
    /\ \E l \in DOMAIN cache :
           /\ Len(cache[l].compilers) = 2
           /\ cache[l].compilers[1].name # cache[l].compilers[2].name
           /\ ToAsciiLowercase(listing[1].language) = l
           /\ ToAsciiLowercase(listing[2].language) # l
           /\ ToAsciiLowercase(listing[3].language) = l

\* C7's second case: the filter removed an entry of a group and kept others.
C7_WitnessFiltered ==
    /\ CacheBuilt
    /\ \E l \in DOMAIN cache :
           /\ Cardinality(Declared(l)) = 3
           /\ Len(cache[l].compilers) = 2
           /\ Ignored(listing[2].name)

\* C9: get_default_compiler(L) is None exactly when L is no key; for a key
\* whose group is empty it panics; otherwise it is Some(name of the group's
\* first compiler).
C9_DefaultCompilerCases ==
    CacheBuilt =>
        \A l \in DOMAIN cache \cup {Str_c, Str_C, Str_go, Str_zz} :
            /\ (GetDefaultCompiler(l) = None) <=> (l \notin DOMAIN cache)
            /\ (l \in DOMAIN cache /\ cache[l].compilers = <<>>)
                   => GetDefaultCompiler(l) = Panic
            /\ (l \in DOMAIN cache /\ cache[l].compilers # <<>>)
                   => GetDefaultCompiler(l) = Some(Head(cache[l].compilers).name)

\* C9's case: the cache has an empty group, a group that is not empty, and a
\* string that is no key.
C9_Witness ==
    /\ CacheBuilt
    /\ \E l \in DOMAIN cache : cache[l].compilers = <<>>
    /\ \E l \in DOMAIN cache : cache[l].compilers # <<>>
    /\ Str_c \notin DOMAIN cache

\* C10: a language the listing declares and langs does not name is a key of
\* the built cache, whatever comps names: is_valid_language is true and
\* get_compilers is Some (of a possibly empty sequence).
C10_GroupsNeverDropped ==
    CacheBuilt =>
        \A i \in 1..Len(listing) :
            LET l == ToAsciiLowercase(listing[i].language) IN
            ~(langs.tag = "Some" /\ l \in langs.val) =>
                /\ IsValidLanguage(l)
                /\ GetCompilers(l).tag = "Some"

\* C10's case: comps names every compiler of a declared language, whose group
\* is in the cache and empty.
C10_Witness ==
    /\ CacheBuilt
    /\ \E l \in DOMAIN cache :
           /\ Declared(l) # {}
           /\ \A i \in Declared(l) : Ignored(listing[i].name)
           /\ GetCompilers(l) = Some(<<>>)

\* C11 as stated: no built cache has the empty string as a key.
C11_NoEmptyKey ==
    CacheBuilt => Str_empty \notin DOMAIN cache

\* C11 amended: a cache built from a listing whose entries all declare a
\* language that is not empty has no empty key.
C11_NoEmptyKeyUnlessDeclared ==
    (CacheBuilt /\ \A i \in 1..Len(listing) : listing[i].language # Str_empty)
        => Str_empty \notin DOMAIN cache

\* C11's case: a cache with keys, built from a listing of entries that all
\* declare a language.
C11_Witness ==
    /\ CacheBuilt
    /\ Len(listing) >= 2
    /\ \A i \in 1..Len(listing) : listing[i].language # Str_empty
    /\ Cardinality(DOMAIN cache) >= 2

\* the keys of the complete cache: the declared languages, lowercased, that
\* langs does not name
KeptLanguages ==
    {ToAsciiLowercase(listing[i].language) : i \in 1..Len(listing)}
        \ (IF langs.tag = "Some" THEN langs.val ELSE {})

\* C15: when load fails, new returns Err and there is no cache; a cache
\* exists only complete: grouped, without the ignored languages and
\* compilers, and with every record's language lowercased.
C15_NoPartialCache ==
    /\ wb \in {"none", "ok", "err"}
    /\ wb # "ok" => (cache = EmptyCache /\ order = <<>>)
    /\ wb = "ok" =>
           /\ DOMAIN cache = KeptLanguages
           /\ Range(order) = KeptLanguages
           /\ \A k \in DOMAIN cache :
                  /\ cache[k].name = k
                  /\ Len(cache[k].compilers) = Len(Retained(k))
                  /\ \A i \in 1..Len(Retained(k)) :
                         /\ cache[k].compilers[i].name = Retained(k)[i].name
                         /\ cache[k].compilers[i].language = k

\* C15's case: new has returned Err although the remote serves a listing.
C15_Witness ==
    /\ wb = "err"
    /\ Len(listing) >= 1
    /\ GetLanguages = <<>>

\* C15's second case: a cache for which every step of new had work to do.
C15_WitnessComplete ==
    /\ wb = "ok"
    /\ \E i \in 1..Len(listing) :
           ToAsciiLowercase(listing[i].language) \notin KeptLanguages
    /\ \E i \in 1..Len(listing) :
           /\ ToAsciiLowercase(listing[i].language) \in KeptLanguages
           /\ Ignored(listing[i].name)
    /\ \E i \in 1..Len(listing) :
           /\ ToAsciiLowercase(listing[i].language) # listing[i].language
           /\ ToAsciiLowercase(listing[i].language) \in KeptLanguages
           /\ ~Ignored(listing[i].name)

----------------------------------------------------------------------------
(* Properties of CompilationBuilder::build (checked under Spec) *)

BuildResults == {"Ok", ErrNoDefault, ErrNoLanguage, ErrNotFound, "panic"}

\* the most recent call on the builder was build
AfterBuild == result \in BuildResults

\* C4: a build whose target is both a key of the cache and the name of a
\* compiler in it sets lang to the target and compiler to the first compiler
\* of that language.
C4_LanguageWinsTie ==
    (AfterBuild /\ IsValidLanguage(target) /\ IsValidCompilerStr(target)) =>
        /\ result = "Ok"
        /\ lang = target
        /\ Len(cache[target].compilers) >= 1
        /\ compiler = cache[target].compilers[1].name

\* Beside C4: whenever such a build returns at all (it panics when the
\* language's group is empty), the language has won the tie.
C4_LanguageWinsTieUnlessPanic ==
    (AfterBuild /\ IsValidLanguage(target) /\ IsValidCompilerStr(target)
                /\ result # "panic") =>
        /\ result = "Ok"
        /\ lang = target
        /\ Len(cache[target].compilers) >= 1
        /\ compiler = cache[target].compilers[1].name

\* C5: a build whose target is neither a key nor a compiler name returns the
\* "target not found" error and leaves lang and compiler as they were.
C5_FailedBuildKeepsResolved ==
    [][(Build /\ ~IsValidLanguage(target) /\ ~IsValidCompilerStr(target)) =>
           /\ result' = ErrNotFound
           /\ lang' = lang
           /\ compiler' = compiler]_vars

\* C5's case: a build has failed on an unknown target after an earlier build
\* had resolved a language and a compiler, which are still there.
C5_Witness ==
    /\ result = ErrNotFound
    /\ ~IsValidLanguage(target)
    /\ ~IsValidCompilerStr(target)
    /\ lang # <<>>
    /\ compiler # <<>>

\* C8: a build whose target is a key with an empty group returns the "no
\* default compiler" error value.
C8_EmptyGroupIsError ==
    (AfterBuild /\ IsValidLanguage(target) /\ GetCompilers(target) = Some(<<>>)) =>
        result = ErrNoDefault

\* the strings a query is asked about
Queried == Names \cup DOMAIN cache \cup {Str_go, Str_zz, Str_empty}

\* C13: a build whose target is no key but the name of a compiler in the cache
\* returns Ok with compiler = target and lang = the name of a group that
\* holds that compiler; no build returns the "no owning language" error; and
\* is_valid_compiler_str(c) is true exactly when get_compiler_language_str(c)
\* is Some.
C13_CompilerResolution ==
    /\ (AfterBuild /\ ~IsValidLanguage(target) /\ IsValidCompilerStr(target)) =>
           /\ result = "Ok"
           /\ compiler = target
           /\ lang \in DOMAIN cache
           /\ cache[lang].name = lang
           /\ Holds(lang, target)
    /\ result # ErrNoLanguage
    /\ CacheBuilt =>
           \A c \in Queried :
               IsValidCompilerStr(c) <=> (GetCompilerLanguageStr(c).tag = "Some")

\* C13's case: a build has resolved a target that is a compiler name and no
\* key, in a cache that has a second group.
C13_Witness ==
    /\ result = "Ok"
    /\ ~IsValidLanguage(target)
    /\ IsValidCompilerStr(target)
    /\ compiler = target
    /\ Cardinality(DOMAIN cache) = 2

\* C17: after a build that returned Ok, lang is a key of the cache and
\* compiler is the name of a compiler of lang's group, in the language branch
\* and in the compiler branch, also for a name that several groups hold.
C17_ResolvedPairConsistent ==
    result = "Ok" =>
        /\ lang \in DOMAIN cache
        /\ Holds(lang, compiler)
        /\ IsValidLanguage(target) => (lang = target)
        /\ ~IsValidLanguage(target) => (compiler = target)

\* C17's case: the compiler branch has resolved a name that two groups hold,
\* the group iterated first not being the only one.
C17_Witness ==
    /\ result = "Ok"
    /\ ~IsValidLanguage(target)
    /\ compiler = target
    /\ Cardinality({k \in DOMAIN cache : Holds(k, target)}) = 2

\* C17's second case: the compiler branch has resolved a name that only the
\* group iterated last holds.
C17_WitnessLastGroup ==
    /\ result = "Ok"
    /\ ~IsValidLanguage(target)
    /\ compiler = target
    /\ Len(order) = 2
    /\ ~Holds(order[1], target)
    /\ lang = order[2]

\* C17's third case: the language branch has resolved.
C17_WitnessLanguage ==
    /\ result = "Ok"
    /\ IsValidLanguage(target)
    /\ lang = target
    /\ compiler # target

\* a request was posted by the most recent call, and it carries the builder's
\* lang and compiler
SentCarriesResolved ==
    sent.tag = "Some" =>
        /\ result \in DispatchResults
        /\ sent.val.lang = lang
        /\ sent.val.compiler = compiler

\* lang and compiler change only in a build that returns Ok
ResolvedChangesOnlyInOkBuild ==
    (lang' # lang \/ compiler' # compiler) => (Build /\ result' = "Ok")

\* C16: the request dispatch posts carries as (lang, compiler) the pair the
\* most recent build that returned Ok has set, or two empty strings when
\* there was none: the pair starts empty, only such a build changes it, and
\* dispatch posts it as it is; and dispatch can be called in every state of a
\* running builder, resolved or not.
C16_DispatchSendsLastResolved ==
    /\ (lang = <<>> /\ compiler = <<>>)
    /\ [][ResolvedChangesOnlyInOkBuild]_vars
    /\ [](SentCarriesResolved)
    /\ [](Running => ENABLED Dispatch)

\* C16's case: dispatch has posted a request after a build failed on the
\* present target, and the request carries the pair of an earlier build.
C16_Witness ==
    /\ sent.tag = "Some"
    /\ CacheBuilt
    /\ ~IsValidLanguage(target)
    /\ ~IsValidCompilerStr(target)
    /\ compiler_options_raw # <<>>
    /\ sent.val.lang # <<>>
    /\ sent.val.compiler # <<>>
    /\ sent.val.compiler # target

\* C16's second case: dispatch has posted a request with two empty strings,
\* no build having resolved anything.
C16_WitnessUnresolved ==
    /\ sent.tag = "Some"
    /\ target # <<>>
    /\ sent.val.lang = <<>>
    /\ sent.val.compiler = <<>>

\* where the i-th item of v starts in the items of v laid out one after the
\* other with one separator character between them (counted from 0)
RECURSIVE ItemOffset(_, _)
ItemOffset(v, i) ==
    IF i = 1 THEN 0 ELSE ItemOffset(v, i - 1) + Len(v[i - 1]) + 1

\* raw is the items of v in list order with a newline between neighbours
IsNewlineJoined(raw, v) ==
    IF v = <<>> THEN raw = <<>>
    ELSE /\ Len(raw) = ItemOffset(v, Len(v)) + Len(v[Len(v)])
         /\ \A i \in 1..Len(v) :
                SubSeq(raw, ItemOffset(v, i) + 1, ItemOffset(v, i) + Len(v[i])) = v[i]
         /\ \A i \in 2..Len(v) : raw[ItemOffset(v, i)] = 10

BuildErrors == {ErrNoDefault, ErrNoLanguage, ErrNotFound}

\* a build that returns an error leaves lang and compiler as they were, and
\* no call but build changes compiler_options_raw
RawChangesOnlyInBuild ==
    /\ (Build /\ result' \in BuildErrors) => (lang' = lang /\ compiler' = compiler)
    /\ (compiler_options_raw' # compiler_options_raw) => Build

\* C18: every build, whether it returns Ok or an error, leaves
\* compiler_options_raw equal to the stored options joined with newlines in
\* list order (empty for an empty list); a build that returns an error leaves
\* lang and compiler as they were; and no other call changes
\* compiler_options_raw, so the request dispatch posts carries the options
\* as they were at the last build.
C18_BuildJoinsOptions ==
    /\ [](AfterBuild => IsNewlineJoined(compiler_options_raw, options))
    /\ [][RawChangesOnlyInBuild]_vars
    /\ [](sent.tag = "Some" => sent.val.compiler_option_raw = compiler_options_raw)

\* C18's case: a build has returned an error after an earlier one had
\* resolved a language, and compiler_options_raw holds the two options joined.
C18_Witness ==
    /\ result \in BuildErrors
    /\ lang # <<>>
    /\ options = <<Str_a, Str_b>>
    /\ compiler_options_raw = <<45, 97, 10, 45, 98>>

\* C18's second case: options were set after the last build, and the request
\* dispatch has posted carries the raw options of that build.
C18_WitnessStale ==
    /\ sent.tag = "Some"
    /\ options = <<>>
    /\ sent.val.compiler_option_raw = <<45, 97, 10, 45, 98>>

-----------------------------------------------------------------------------
(* The listing the tests run against (checked under SpecFixture) *)

\* "gcc-6.3.0", "gcc-head", "python-3.8"
Str_gcc_6_3_0 == <<103, 99, 99, 45, 54, 46, 51, 46, 48>>
Str_gcc_head == <<103, 99, 99, 45, 104, 101, 97, 100>>
Str_python_3_8 == <<112, 121, 116, 104, 111, 110, 45, 51, 46, 56>>
\* "C++", "c++", "Python", "python"
Str_Cpp == <<67, 43, 43>>
Str_cpp == <<99, 43, 43>>
Str_Python == <<80, 121, 116, 104, 111, 110>>
Str_python == <<112, 121, 116, 104, 111, 110>>

Fixture ==
    << [name |-> Str_gcc_6_3_0, language |-> Str_Cpp],
       [name |-> Str_gcc_head, language |-> Str_Cpp],
       [name |-> Str_python_3_8, language |-> Str_Python] >>

\* Wandbox::new(None, None) and Wandbox::new(Some({"gcc-head"}), None)
FixtureIgnored == {None, Some({Str_gcc_head})}

\* builder.target("c++"), builder.target("gcc-6.3.0"), and "gcc-head"
FixtureTargets == {Str_cpp, Str_gcc_6_3_0, Str_gcc_head}

InitFixture ==
    /\ listing = Fixture
    /\ InitWandbox
    /\ InitBuilder
    /\ InitThreads

NextFixture ==
    \/ \E cs \in FixtureIgnored : NewOk(cs, None)
    \/ NewErr
    \/ \E t \in FixtureTargets : Target(t)
    \/ \E c \in CodeInputs : Code(c)
    \/ \E v \in OptionInputs : OptionsStr(v)
    \/ Build
    \/ Dispatch

SpecFixture == InitFixture /\ [][NextFixture]_vars

\* C14: the cache built from the listing [gcc-6.3.0 (C++), gcc-head (C++),
\* python-3.8 (Python)] has exactly the keys "c++" and "python", and
\* get_languages returns exactly these two groups; the default compiler of
\* "c++" is "gcc-6.3.0"; "gcc-head" is a valid compiler when no compiler is
\* ignored, and when "gcc-head" is ignored it is not valid while "c++" stays
\* a valid language with default compiler "gcc-6.3.0".
C14_FixtureScenario ==
    CacheBuilt =>
        /\ DOMAIN cache = {Str_cpp, Str_python}
        /\ Len(GetLanguages) = 2
        /\ {GetLanguages[i].name : i \in 1..2} = {Str_cpp, Str_python}
        /\ IsValidLanguage(Str_cpp)
        /\ GetDefaultCompiler(Str_cpp) = Some(Str_gcc_6_3_0)
        /\ (comps = None) => IsValidCompilerStr(Str_gcc_head)
        /\ (comps = Some({Str_gcc_head})) => ~IsValidCompilerStr(Str_gcc_head)

\* C14's case: the cache was built with "gcc-head" ignored, and a build on
\* the target "c++" has resolved "gcc-6.3.0".
C14_Witness ==
    /\ CacheBuilt
    /\ comps = Some({Str_gcc_head})
    /\ result = "Ok"
    /\ lang = Str_cpp
    /\ compiler = Str_gcc_6_3_0

\* C14's other case: the cache was built with nothing ignored, and a build on
\* the target "gcc-head" has resolved it under "c++".
C14_WitnessAll ==
    /\ CacheBuilt
    /\ comps = None
    /\ result = "Ok"
    /\ lang = Str_cpp
    /\ compiler = Str_gcc_head

-----------------------------------------------------------------------------
(* Threads sharing one Wandbox (SpecReaders) *)

Queries == {"get_compilers", "get_languages", "is_valid_compiler_str",
            "get_compiler_language_str", "is_valid_language",
            "get_default_compiler"}

\* LockMode taking the lock exclusively in get_default_compiler
LockModeExclusiveDefault(q) ==
    IF q = "get_default_compiler" THEN "write" ELSE "read"

\* how each query takes the lock: self.cache.read() in all six
LockMode(q) ==
    CASE q = "get_compilers" -> "read"
      [] q = "get_languages" -> "read"
      [] q = "is_valid_compiler_str" -> "read"
      [] q = "get_compiler_language_str" -> "read"
      [] q = "is_valid_language" -> "read"
      [] q = "get_default_compiler" -> "read"

\* RwLock: read() returns at once unless a write guard is out; write()
\* returns at once only when no guard at all is out
CanAcquire(mode) ==
    IF mode = "read" THEN ~rw.writer
    ELSE ~rw.writer /\ rw.readers = 0

Locked(mode) ==
    IF mode = "read" THEN [rw EXCEPT !.readers = @ + 1]
    ELSE [rw EXCEPT !.writer = TRUE]

\* the guard of the given mode dropped, with n more read guards
Unlocked(mode, n) ==
    IF mode = "read" THEN [rw EXCEPT !.readers = @ - 1 - n]
    ELSE [rw EXCEPT !.writer = FALSE, !.readers = @ - n]

\* what query q returns for argument a on the cache as it is
QueryResult(q, a) ==
    CASE q = "get_compilers" -> GetCompilers(a)
      [] q = "get_languages" -> GetLanguages
      [] q = "is_valid_compiler_str" -> IsValidCompilerStr(a)
      [] q = "get_compiler_language_str" -> GetCompilerLanguageStr(a)
      [] q = "is_valid_language" -> IsValidLanguage(a)
      [] q = "get_default_compiler" -> GetDefaultCompiler(a)

\* .expect("awd") panics in get_default_compiler
Panics(q, a) == q = "get_default_compiler" /\ GetDefaultCompiler(a) = Panic

\* a build is between its first and its last statement
Building(t) == threads[t].op = "build" /\ threads[t].pc \in {"acquire", "locked"}

\* the arguments the threads query with, the targets they build, and the
\* compilers the Wandbox ignores
ReaderArgs == {Str_c}
ReaderTargets == {Str_c}
ReaderIgnored == {None, Some({Str_c})}

\* let lock = cache.read().unwrap(), as the tests do before they query
TakeGuard(t) ==
    /\ wb = "ok"
    /\ threads[t].pc = "idle"
    /\ ~threads[t].outer
    /\ CanAcquire("read")
    /\ rw' = Locked("read")
    /\ threads' = [threads EXCEPT ![t].outer = TRUE]
    /\ UNCHANGED <<listing, wandbox, builder, result, sent>>

\* that guard going out of scope
DropGuard(t) ==
    /\ threads[t].pc = "idle"
    /\ threads[t].outer
    /\ rw' = Unlocked("read", 0)
    /\ threads' = [threads EXCEPT ![t].outer = FALSE]
    /\ UNCHANGED <<listing, wandbox, builder, result, sent>>

\* thread t enters query q with argument a
Call(t, q, a) ==
    /\ wb = "ok"
    /\ threads[t].pc = "idle"
    /\ threads' = [threads EXCEPT ![t].pc = "acquire", ![t].op = q,
                                   ![t].query = q, ![t].arg = a, ![t].ret = None]
    /\ UNCHANGED <<listing, wandbox, builder, result, sent, rw>>

\* thread t enters build on the builder: the join, then is_valid_language
BuildCall(t) ==
    /\ wb = "ok"
    /\ Running
    /\ threads[t].pc = "idle"
    /\ \A u \in Threads : ~Building(u)
    /\ compiler_options_raw' = Join(options, Newline)
    /\ threads' = [threads EXCEPT ![t].pc = "acquire", ![t].op = "build",
                                   ![t].query = "is_valid_language",
                                   ![t].arg = target, ![t].ret = None]
    /\ UNCHANGED <<listing, wandbox, target, lang, compiler, code, stdin, options,
                   save, result, sent, rw>>

\* self.cache.read().unwrap() returns the guard
Acquire(t) ==
    /\ threads[t].pc = "acquire"
    /\ CanAcquire(LockMode(threads[t].query))
    /\ rw' = Locked(LockMode(threads[t].query))
    /\ threads' = [threads EXCEPT ![t].pc = "locked"]
    /\ UNCHANGED <<listing, wandbox, builder, result, sent>>

\* the read guards thread t drops when it unwinds, besides the query's own
Unwound(t) == IF threads[t].outer THEN 1 ELSE 0

\* the query computes its result under the guard and returns, dropping the
\* guard; a panic unwinds the thread and drops every guard it holds
Return(t) ==
    /\ threads[t].pc = "locked"
    /\ threads[t].op # "build"
    /\ LET q == threads[t].query
           a == threads[t].arg
       IN IF Panics(q, a)
          THEN /\ rw' = Unlocked(LockMode(q), Unwound(t))
               /\ threads' = [threads EXCEPT ![t].pc = "panicked",
                                              ![t].outer = FALSE,
                                              ![t].ret = Some(Panic)]
          ELSE /\ rw' = Unlocked(LockMode(q), 0)
               /\ threads' = [threads EXCEPT ![t].pc = "idle",
                                              ![t].ret = Some(QueryResult(q, a))]
    /\ UNCHANGED <<listing, wandbox, builder, result, sent>>

\* the query build is in returns, and build goes on to its next query
BuildGoesOn(t, q) ==
    /\ rw' = Unlocked(LockMode(threads[t].query), 0)
    /\ threads' = [threads EXCEPT ![t].pc = "acquire", ![t].query = q]
    /\ UNCHANGED <<lang, compiler, result, sent>>

\* the query build is in returns, and build returns res with lang and
\* compiler set to l and c
BuildReturns(t, l, c, res) ==
    /\ rw' = Unlocked(LockMode(threads[t].query), 0)
    /\ threads' = [threads EXCEPT ![t].pc = "idle", ![t].ret = Some(res)]
    /\ lang' = l
    /\ compiler' = c
    /\ result' = res
    /\ sent' = None

\* get_default_compiler panics inside build
BuildPanics(t) ==
    /\ rw' = Unlocked(LockMode(threads[t].query), Unwound(t))
    /\ threads' = [threads EXCEPT ![t].pc = "panicked", ![t].outer = FALSE,
                                   ![t].ret = Some("panic")]
    /\ result' = "panic"
    /\ sent' = None
    /\ UNCHANGED <<lang, compiler>>

\* build, from the return of one of its queries to its next read() or to
\* its own return
BuildStep(t) ==
    /\ threads[t].pc = "locked"
    /\ threads[t].op = "build"
    /\ LET q == threads[t].query
           a == threads[t].arg
       IN CASE q = "is_valid_language" ->
                   IF IsValidLanguage(a)
                   THEN BuildGoesOn(t, "get_default_compiler")
                   ELSE BuildGoesOn(t, "is_valid_compiler_str")
            [] q = "get_default_compiler" ->
                   LET def == GetDefaultCompiler(a) IN
                   CASE def.tag = "Panic" -> BuildPanics(t)
                     [] def.tag = "None" ->
                            BuildReturns(t, lang, compiler, ErrNoDefault)
                     [] OTHER -> BuildReturns(t, a, def.val, "Ok")
            [] q = "is_valid_compiler_str" ->
                   IF IsValidCompilerStr(a)
                   THEN BuildGoesOn(t, "get_compiler_language_str")
                   ELSE BuildReturns(t, lang, compiler, ErrNotFound)
            [] q = "get_compiler_language_str" ->
                   LET l == GetCompilerLanguageStr(a) IN
                   IF l.tag = "None"
                   THEN BuildReturns(t, lang, compiler, ErrNoLanguage)
                   ELSE BuildReturns(t, l.val, a, "Ok")
    /\ UNCHANGED <<listing, wandbox, target, code, stdin, options,
                   compiler_options_raw, save>>

\* longest listing the remote serves when threads share the cache
MaxReaderListing == 1

InitReaders ==
    /\ listing \in SeqsUpTo(BuilderEntries, MaxReaderListing)
    /\ InitWandbox
    /\ InitBuilder
    /\ InitThreads

NextReaders ==
    \/ \E cs \in ReaderIgnored : NewOk(cs, None)
    \/ NewErr
    \/ \E t \in ReaderTargets : (\A u \in Threads : ~Building(u)) /\ Target(t)
    \/ \E t \in Threads : TakeGuard(t)
    \/ \E t \in Threads : DropGuard(t)
    \/ \E t \in Threads, q \in Queries, a \in ReaderArgs : Call(t, q, a)
    \/ \E t \in Threads : BuildCall(t)
    \/ \E t \in Threads : Acquire(t)
    \/ \E t \in Threads : Return(t)
    \/ \E t \in Threads : BuildStep(t)

SpecReaders == InitReaders /\ [][NextReaders]_vars

-----------------------------------------------------------------------------
(* Properties of the shared cache (checked under SpecReaders) *)

\* the read guards the threads hold
GuardsOut ==
    Cardinality({t \in Threads : threads[t].outer})
        + Cardinality({t \in Threads : threads[t].pc = "locked"})

\* thread t has returned from its call, or unwound out of it
Returned(t) == threads[t].pc \in {"idle", "panicked"} /\ threads[t].ret.tag = "Some"

\* no write guard is ever out, the lock counts exactly the read guards the
\* threads hold, and a read() finds the lock free for reading: the one a
\* thread is in, and one any thread might make next
NoReaderWaits ==
    /\ ~rw.writer
    /\ rw.readers = GuardsOut
    /\ CanAcquire("read")
    /\ \A t \in Threads :
           threads[t].pc = "acquire" => CanAcquire(LockMode(threads[t].query))

\* what a thread got from a call is what the call returns on the cache alone
SequentialResults ==
    \A t \in Threads :
        /\ (Returned(t) /\ threads[t].op \in Queries) =>
               threads[t].ret = Some(QueryResult(threads[t].op, threads[t].arg))
        /\ (Returned(t) /\ threads[t].op = "build") =>
               threads[t].ret.val = Resolve(threads[t].arg).result
        /\ (Returned(t) /\ threads[t].op = "build"
               /\ \A u \in Threads \ {t} : threads[u].op # "build") =>
               /\ lang = Resolve(threads[t].arg).lang
               /\ compiler = Resolve(threads[t].arg).compiler

\* C12: once Wandbox::new has returned, no step of any thread changes the
\* cache and no write guard is ever taken; every read() a thread makes,
\* nested under a read guard it already holds or not, finds the lock free for
\* reading, so no thread waits; and every call returns what it returns when
\* it runs alone.
C12_ReadersNeverWait ==
    /\ [][CacheBuilt => UNCHANGED wandbox]_vars
    /\ [](NoReaderWaits)
    /\ [](SequentialResults)

\* C12's case: a thread holds a read guard and, nested under it, the guard of
\* get_default_compiler, while the other thread holds the guard of a query
\* inside build.
C12_Witness ==
    \E t \in Threads, u \in Threads :
        /\ t # u
        /\ threads[t].outer
        /\ threads[t].pc = "locked"
        /\ threads[t].query = "get_default_compiler"
        /\ threads[u].pc = "locked"
        /\ threads[u].op = "build"
        /\ rw.readers = 3

\* C12's second case: one thread has unwound out of a panic in
\* get_default_compiler, and the other, holding a read guard, has returned
\* from is_valid_language.
C12_WitnessPanic ==
    \E t \in Threads, u \in Threads :
        /\ threads[t].pc = "panicked"
        /\ threads[u].pc = "idle"
        /\ threads[u].op = "is_valid_language"
        /\ threads[u].ret = Some(TRUE)
        /\ threads[u].outer

=============================================================================
